---------------------------- MODULE Spec2Model ----------------------------
(***************************************************************************)
(* Network assembly and synapse stepping of neurax/jaxley.                 *)
(*                                                                         *)
(* The state is one Network object (src/neurax/modules/network.py): the    *)
(* constructor arguments it keeps, its params/states tables, and the       *)
(* attributes its three setup phases assign.  An attribute that has not    *)
(* been assigned yet is None (<<>>); an assigned one is Some(v) (<<v>>).   *)
(* Index VALUES are the code's 0-based integers; TLA+ sequences are        *)
(* 1-based, so element k of a Python list sits at position k+1.            *)
(* Conductances are exact rationals <<numerator, denominator>>.            *)
(***************************************************************************)
EXTENDS Integers, Sequences, FiniteSets, TLC

VARIABLES
    cells,                       \* self.cells
    connectivities,              \* self.connectivities
    nseg,                        \* self.nseg
    params,                      \* self.params  (name -> one value per entity)
    states,                      \* self.states
    initialized_morph,
    initialized_conds,
    initialized_syns,
    nbranches_per_cell,
    total_nbranches,
    cumsum_nbranches,
    comb_parents,
    comb_branches_in_each_level,
    nodes,
    coupling_conds_fwd,
    coupling_conds_bwd,
    summed_coupling_conds,
    branch_conds_fwd,
    branch_conds_bwd,
    syn_edges,
    branch_edges,
    err,                         \* exception raised by the last call, or "none"
    script,                      \* progress through init_morph; init_conds; init_syns
    first_round,                 \* the tables as they stood after the first round
    step_calls,                  \* index arrays each group's step and scatter received
    step_out,                    \* what _step_synapse returned
    glu_in,                      \* arguments of glutamate(...)
    glu_out                      \* what glutamate(...) returned

vars == << cells, connectivities, nseg, params, states,
           initialized_morph, initialized_conds, initialized_syns,
           nbranches_per_cell, total_nbranches, cumsum_nbranches, comb_parents,
           comb_branches_in_each_level, nodes,
           coupling_conds_fwd, coupling_conds_bwd, summed_coupling_conds,
           branch_conds_fwd, branch_conds_bwd, syn_edges, branch_edges,
           err, script, first_round, step_calls, step_out, glu_in, glu_out >>

morph_vars == << nbranches_per_cell, total_nbranches, cumsum_nbranches, comb_parents,
                 comb_branches_in_each_level, nodes, initialized_morph >>

conds_vars == << coupling_conds_fwd, coupling_conds_bwd, summed_coupling_conds,
                 branch_conds_fwd, branch_conds_bwd, initialized_conds >>

syns_vars == << syn_edges, branch_edges, initialized_syns >>

input_vars == << cells, connectivities, nseg, params, states >>

glu_vars == << glu_in, glu_out >>

(***************************************************************************)
(* Bounds of the model.                                                    *)
(***************************************************************************)
MaxCells == 2
MaxBranches == 3
MaxNseg == 2
MaxEdges == 3

(***************************************************************************)
(* Generic helpers.                                                        *)
(***************************************************************************)
None == << >>
Some(v) == << v >>
IsSet(a) == a # << >>
Val(a) == a[1]

Max(a, b) == IF a >= b THEN a ELSE b

ZeroR == << 0, 1 >>

RECURSIVE Gcd(_, _)
Gcd(a, b) == IF b = 0 THEN a ELSE Gcd(b, a % b)

\* The rational n/d in lowest terms (d > 0).
Rat(n, d) == LET g == Gcd(n, d) IN IF n = 0 THEN ZeroR ELSE << n \div g, d \div g >>

RAdd(x, y) == Rat(x[1] * y[2] + y[1] * x[2], x[2] * y[2])

RECURSIVE SumUpTo(_, _)
SumUpTo(s, n) == IF n = 0 THEN 0 ELSE SumUpTo(s, n - 1) + s[n]

\* sum(s)
SumSeq(s) == SumUpTo(s, Len(s))

RECURSIVE FlattenUpTo(_, _)
FlattenUpTo(ss, n) == IF n = 0 THEN << >> ELSE FlattenUpTo(ss, n - 1) \o ss[n]

\* The concatenation of the sequences of ss, in order.
Flatten(ss) == FlattenUpTo(ss, Len(ss))

\* np.arange(n).tolist()
Arange(n) == [k \in 1..n |-> k - 1]

\* [x] * n
Repeat(x, n) == [k \in 1..n |-> x]

\* The members of a finite set of integers in increasing order.
RECURSIVE SortedSeq(_)
SortedSeq(S) ==
    IF S = {} THEN << >>
    ELSE LET m == CHOOSE x \in S : \A y \in S : x <= y
         IN << m >> \o SortedSeq(S \ {m})

(***************************************************************************)
(* Cells, as the constructor receives them.  A Cell carries nseg, its      *)
(* branch count, its local parent array (root first, parent -1), its level *)
(* grouping and one geometry value per compartment.                        *)
(***************************************************************************)
\* Local parent arrays of the trees of b branches the model builds cells from:
\* the chain (every branch the child of the one before) and the star (every
\* branch a child of the root).  Branch 0 is the root.
Chain(b) == [j \in 1..b |-> j - 2]
Star(b) == [j \in 1..b |-> IF j = 1 THEN -1 ELSE 0]
TreeShapes(b) == { Chain(b), Star(b) }

RECURSIVE Depth(_, _)
Depth(p, b) == IF p[b + 1] = -1 THEN 0 ELSE 1 + Depth(p, p[b + 1])

\* Cell.comb_branches_in_each_level: the branches of each depth, ascending.
LevelsOf(p) ==
    LET B == 0..(Len(p) - 1)
        maxd == CHOOSE d \in 0..Len(p) : (\E b \in B : Depth(p, b) = d)
                                          /\ \A b \in B : Depth(p, b) <= d
    IN [d \in 1..(maxd + 1) |-> SortedSeq({ b \in B : Depth(p, b) = d - 1 })]

\* Geometry of local compartment k = branch * nseg + seg of a cell: the radius
\* varies along a branch, the length from branch to branch.
RadiusAt(ns, k) == 1 + (k % ns)
LengthAt(ns, k) == 1 + ((k \div ns) % 2)
ResistivityAt(ns, k) == 1 + ((k + (k \div ns)) % 2)

MakeCell(ns, p) ==
    [ nseg |-> ns,
      total_nbranches |-> Len(p),
      comb_parents |-> p,
      comb_branches_in_each_level |-> LevelsOf(p),
      radius |-> [k \in 1..(ns * Len(p)) |-> RadiusAt(ns, k - 1)],
      length |-> [k \in 1..(ns * Len(p)) |-> LengthAt(ns, k - 1)],
      axial_resistivity |-> [k \in 1..(ns * Len(p)) |-> ResistivityAt(ns, k - 1)],
      voltages |-> [k \in 1..(ns * Len(p)) |-> ((k - 1) % 3) - 70] ]

CellChoices ==
    { MakeCell(ns, p) :
        ns \in 1..MaxNseg, p \in UNION { TreeShapes(b) : b \in 1..MaxBranches } }

CellLists == UNION { [1..n -> CellChoices] : n \in 1..MaxCells }

\* The lists of cells that all have nseg = ns.
CellListsOf(ns) ==
    LET choices == { MakeCell(ns, p) : p \in UNION { TreeShapes(b) : b \in 1..MaxBranches } }
    IN UNION { [1..n -> choices] : n \in 1..MaxCells }

SharedNseg(cs) == \A i \in 1..Len(cs) : cs[i].nseg = cs[1].nseg


(***************************************************************************)
(* Connectivity groups, as the constructor receives them.  A synapse type  *)
(* declares synapse_params and synapse_states (name -> default value); a   *)
(* connection names its pre and post (cell, branch, segment).              *)
(***************************************************************************)
GlutamateSynapse ==
    [ name |-> "GlutamateSynapse", synapse_params |-> [gS |-> 2], synapse_states |-> [s |-> 3] ]

\* A second instance of the same class with another default conductance.
WeakGlutamateSynapse ==
    [ name |-> "GlutamateSynapse", synapse_params |-> [gS |-> 1], synapse_states |-> [s |-> 1] ]

\* A synapse class with names of its own.
TestSynapse ==
    [ name |-> "TestSynapse", synapse_params |-> [gT |-> 5], synapse_states |-> [t |-> 1] ]

Connection(prc, prb, prs, poc, pob, pos) ==
    [ pre_cell_ind |-> prc, pre_branch_ind |-> prb, pre_seg |-> prs,
      post_cell_ind |-> poc, post_branch_ind |-> pob, post_seg |-> pos ]

Reverse(c) ==
    Connection(c.post_cell_ind, c.post_branch_ind, c.post_seg,
               c.pre_cell_ind, c.pre_branch_ind, c.pre_seg)

\* From the last compartment of cell i to the first compartment of the last
\* branch of the next cell (cells taken cyclically); ns is the network's nseg.
RingConn(cs, ns, i) ==
    LET j == (i % Len(cs)) + 1
    IN Connection(i - 1, cs[i].total_nbranches - 1, ns - 1,
                  j - 1, cs[j].total_nbranches - 1, 0)

Ring(cs, ns) == [i \in 1..Len(cs) |-> RingConn(cs, ns, i)]

Group(t, cn) == [ synapse_type |-> t, conns |-> cn ]

\* The connectivity lists the model constructs networks from.
Layouts(cs) ==
    LET ns == cs[1].nseg
        ring == Ring(cs, ns)
        back == [i \in 1..Len(cs) |-> Reverse(ring[i])]
    IN { << >>,
         << Group(GlutamateSynapse, ring) >>,
         << Group(GlutamateSynapse, ring), Group(TestSynapse, back \o << ring[1] >>) >>,
         << Group(GlutamateSynapse, ring \o back), Group(WeakGlutamateSynapse, << back[1] >>) >> }

(***************************************************************************)
(* Network.__init__                                                        *)
(***************************************************************************)
\* Module._append_to_params_and_state: each cell table entry, concatenated.
AppendToParamsAndState(cs) ==
    [ radius |-> Flatten([i \in 1..Len(cs) |-> cs[i].radius]),
      length |-> Flatten([i \in 1..Len(cs) |-> cs[i].length]),
      axial_resistivity |-> Flatten([i \in 1..Len(cs) |-> cs[i].axial_resistivity]) ]

AppendToStates(cs) ==
    [ voltages |-> Flatten([i \in 1..Len(cs) |-> cs[i].voltages]) ]

\* self.params[key] = jnp.asarray([default for _ in connectivity.conns])
SetEntries(tbl, defaults, n) ==
    [ k \in (DOMAIN tbl) \cup (DOMAIN defaults) |->
        IF k \in DOMAIN defaults THEN Repeat(defaults[k], n) ELSE tbl[k] ]

RECURSIVE AppendSynapseParams(_, _)
AppendSynapseParams(tbl, conn) ==
    IF conn = << >> THEN tbl
    ELSE AppendSynapseParams(
             SetEntries(tbl, conn[1].synapse_type.synapse_params, Len(conn[1].conns)),
             Tail(conn))

RECURSIVE AppendSynapseStates(_, _)
AppendSynapseStates(tbl, conn) ==
    IF conn = << >> THEN tbl
    ELSE AppendSynapseStates(
             SetEntries(tbl, conn[1].synapse_type.synapse_states, Len(conn[1].conns)),
             Tail(conn))

OffScript == 0 - 1

Construct(cs, conn) ==
    /\ cells = cs
    /\ connectivities = conn
    /\ nseg = cs[1].nseg
    /\ params = AppendSynapseParams(AppendToParamsAndState(cs), conn)
    /\ states = AppendSynapseStates(AppendToStates(cs), conn)
    /\ initialized_morph = FALSE
    /\ initialized_syns = FALSE
    /\ initialized_conds = FALSE
    /\ nbranches_per_cell = None
    /\ total_nbranches = None
    /\ cumsum_nbranches = None
    /\ comb_parents = None
    /\ comb_branches_in_each_level = None
    /\ nodes = None
    /\ coupling_conds_fwd = None
    /\ coupling_conds_bwd = None
    /\ summed_coupling_conds = None
    /\ branch_conds_fwd = None
    /\ branch_conds_bwd = None
    /\ syn_edges = None
    /\ branch_edges = None
    /\ err = "none"
    /\ script = 0
    /\ first_round = None
    /\ step_calls = None
    /\ step_out = None

NoGlutamateCall == glu_in = None /\ glu_out = None

\* Networks whose cells share nseg, as the spec requires of the caller.
Init ==
    /\ \E ns \in 1..MaxNseg : \E cs \in CellListsOf(ns) :
          \E conn \in Layouts(cs) : Construct(cs, conn)
    /\ NoGlutamateCall

\* Networks of any cells the constructor accepts.
InitOpen ==
    /\ \E cs \in CellLists : \E conn \in Layouts(cs) : Construct(cs, conn)
    /\ NoGlutamateCall

(***************************************************************************)
(* The documented setup order, and what the tables look like.              *)
(***************************************************************************)
Phases == << "init_morph", "init_conds", "init_syns" >>

\* script counts the calls made so far while they follow init_morph,
\* init_conds, init_syns, init_morph, ... from a fresh network (two rounds).
Advance(call) ==
    IF script \in 0..5 /\ Phases[(script % 3) + 1] = call THEN script + 1 ELSE OffScript

Tables ==
    [ comb_parents |-> comb_parents,
      comb_branches_in_each_level |-> comb_branches_in_each_level,
      nodes |-> nodes,
      coupling_conds_fwd |-> coupling_conds_fwd,
      coupling_conds_bwd |-> coupling_conds_bwd,
      summed_coupling_conds |-> summed_coupling_conds,
      branch_conds_fwd |-> branch_conds_fwd,
      branch_conds_bwd |-> branch_conds_bwd,
      syn_edges |-> syn_edges,
      branch_edges |-> branch_edges ]

\* Bookkeeping of a setup call: the script position and the first round's tables.
Record(call) ==
    /\ script' = Advance(call)
    /\ first_round' = IF script' = 3 THEN Some(Tables') ELSE first_round

(***************************************************************************)
(* Network.init_morph                                                      *)
(***************************************************************************)
\* jnp.cumsum(jnp.asarray([0] + nb))
CumSum(nb) == [i \in 1..(Len(nb) + 1) |-> SumUpTo(nb, i - 1)]

\* Faulty variant, for sensitivity analysis: the offset is added to every entry, the root's sentinel included.
AddToAll(p, off) == [j \in 1..Len(p) |-> p[j] + off]

\* p.at[1:].add(off): every entry but the first is raised by off.
AddFromSecond(p, off) == [j \in 1..Len(p) |-> IF j = 1 THEN p[j] ELSE p[j] + off]

CombParents(cs, cumsum) ==
    Flatten([i \in 1..Len(cs) |-> AddFromSecond(cs[i].comb_parents, cumsum[i])])

\* utils.cell_utils.merge_cells(cumsum, levels, exclude_first=False): level d of
\* the network is level d of every cell that has one, each raised by the
\* cell's branch offset, concatenated in cell order.
RECURSIVE MaxLenUpTo(_, _)
MaxLenUpTo(ss, n) == IF n = 0 THEN 0 ELSE Max(Len(ss[n]), MaxLenUpTo(ss, n - 1))

MaxLen(ss) == MaxLenUpTo(ss, Len(ss))

MergeCells(cumsum, arrs) ==
    LET raised(i, d) == [j \in 1..Len(arrs[i][d]) |-> arrs[i][d][j] + cumsum[i]]
    IN [d \in 1..MaxLen(arrs) |->
          Flatten([i \in 1..Len(arrs) |->
                      IF Len(arrs[i]) >= d THEN raised(i, d) ELSE << >>])]

\* The three columns of self.nodes.
CompIndexColumn(ns, total) == Arange(ns * total)

BranchIndexColumn(ns, total) == [k \in 1..(ns * total) |-> (k - 1) \div ns]

\* Faulty variant, for sensitivity analysis: each cell index repeated once per branch, not once per compartment.
CellIndexPerBranch(ns, nb) == Flatten([i \in 1..Len(nb) |-> Repeat(i - 1, nb[i])])

CellIndexColumn(ns, nb) == Flatten([i \in 1..Len(nb) |-> Repeat(i - 1, ns * nb[i])])

NodeTable(ns, nb) ==
    [ comp_index |-> CompIndexColumn(ns, SumSeq(nb)),
      branch_index |-> BranchIndexColumn(ns, SumSeq(nb)),
      cell_index |-> CellIndexColumn(ns, nb) ]

InitMorph ==
    LET nb == [i \in 1..Len(cells) |-> cells[i].total_nbranches]
        cumsum == CumSum(nb)
    IN /\ nbranches_per_cell' = Some(nb)
       /\ total_nbranches' = Some(SumSeq(nb))
       /\ cumsum_nbranches' = Some(cumsum)
       /\ comb_parents' = Some(CombParents(cells, cumsum))
       /\ comb_branches_in_each_level' =
              Some(MergeCells(cumsum,
                              [i \in 1..Len(cells) |-> cells[i].comb_branches_in_each_level]))
       /\ nodes' = Some(NodeTable(nseg, nb))
       /\ initialized_morph' = TRUE
       /\ err' = "none"
       /\ UNCHANGED << input_vars, conds_vars, syns_vars, step_calls, step_out, glu_vars >>
       /\ Record("init_morph")

(***************************************************************************)
(* Network.init_conds                                                      *)
(***************************************************************************)
\* Conductance between two adjoining compartments: their two half-segment
\* resistances  ra * (l / 2) / r^2  in series (the common factor pi dropped).
CouplingCond(r1, r2, ra1, ra2, l1, l2) ==
    Rat(2 * r1 * r1 * r2 * r2, ra1 * l1 * r2 * r2 + ra2 * l2 * r1 * r1)

\* jnp.reshape(arr, (nb, ns))
Reshape(arr, nb, ns) == [b \in 1..nb |-> [k \in 1..ns |-> arr[(b - 1) * ns + k]]]

\* Branch.init_branch_conds for one branch: forward, backward and summed
\* coupling conductances of its ns compartments.
InitBranchConds(ra, r, l, ns) ==
    LET bwd == [k \in 1..(ns - 1) |->
                   CouplingCond(r[k], r[k + 1], ra[k], ra[k + 1], l[k], l[k + 1])]
        fwd == [k \in 1..(ns - 1) |->
                   CouplingCond(r[k + 1], r[k], ra[k + 1], ra[k], l[k + 1], l[k])]
        summed == [k \in 1..ns |->
                      RAdd(IF k > 1 THEN fwd[k - 1] ELSE ZeroR,
                           IF k < ns THEN bwd[k] ELSE ZeroR)]
    IN << fwd, bwd, summed >>

\* Cell.init_cell_conds: the (child -> parent, parent -> child) pair of a junction.
InitCellConds(ra_parent, ra_child, r_parent, r_child, l_parent, l_child) ==
    << CouplingCond(r_child, r_parent, ra_child, ra_parent, l_child, l_parent),
       CouplingCond(r_parent, r_child, ra_parent, ra_child, l_parent, l_child) >>

\* The segment of the parent branch and of the child branch whose geometry
\* init_conds hands to init_cell_conds: arr[par_inds, 0] and arr[child_inds, -1].
\* Faulty variant, for sensitivity analysis: the parent's geometry is read at its last segment.
ParentLastSegment(ns) == ns

ParentSegment(ns) == 1
ChildSegment(ns) == ns

JunctionConds(ra, r, l, ns, par, child) ==
    InitCellConds(ra[par + 1][ParentSegment(ns)], ra[child + 1][ChildSegment(ns)],
                  r[par + 1][ParentSegment(ns)], r[child + 1][ChildSegment(ns)],
                  l[par + 1][ParentSegment(ns)], l[child + 1][ChildSegment(ns)])

RECURSIVE RSumWhereUpTo(_, _, _, _)
RSumWhereUpTo(keys, vals, key, n) ==
    IF n = 0 THEN ZeroR
    ELSE RAdd(RSumWhereUpTo(keys, vals, key, n - 1),
              IF keys[n] = key THEN vals[n] ELSE ZeroR)

\* The sum of vals[k] over the positions k with keys[k] = key.
RSumWhere(keys, vals, key) == RSumWhereUpTo(keys, vals, key, Len(keys))

\* Cell.update_summed_coupling_conds: the parent -> child conductance is added
\* at the child's last compartment and the child -> parent conductance at the
\* first compartment of the child's parent; several children accumulate.
UpdateSummedCouplingConds(summed, child_inds, fwd, bwd, parents, ns) ==
    LET par_of == [k \in 1..Len(child_inds) |-> parents[child_inds[k] + 1]]
    IN [b \in 1..Len(summed) |-> [k \in 1..ns |->
          RAdd(RAdd(summed[b][k],
                    IF k = ns THEN RSumWhere(child_inds, bwd, b - 1) ELSE ZeroR),
               IF k = 1 THEN RSumWhere(par_of, fwd, b - 1) ELSE ZeroR)]]

RECURSIVE LastPositionUpTo(_, _, _)
LastPositionUpTo(s, x, n) ==
    IF n = 0 THEN 0 ELSE IF s[n] = x THEN n ELSE LastPositionUpTo(s, x, n - 1)

\* The position of x in s (0 when absent); child_inds holds no index twice.
PositionOf(s, x) == LastPositionUpTo(s, x, Len(s))

\* jnp.zeros(nb).at[child_inds].set(vals)
ScatterSet(nb, child_inds, vals) ==
    [b \in 1..nb |->
        IF PositionOf(child_inds, b - 1) = 0 THEN ZeroR
        ELSE vals[PositionOf(child_inds, b - 1)]]

InitConds ==
    /\ IF ~IsSet(total_nbranches)
       THEN \* line 110: the attribute does not exist, __getattr__ asserts
            /\ err' = "AssertionError"
            /\ UNCHANGED conds_vars
       ELSE LET nb == Val(total_nbranches)
                ns == nseg
            IN IF Len(params.axial_resistivity) # nb * ns
               THEN \* lines 114-118: the table does not reshape to (nbranches, nseg)
                    /\ err' = "TypeError"
                    /\ UNCHANGED conds_vars
               ELSE LET ra == Reshape(params.axial_resistivity, nb, ns)
                        r == Reshape(params.radius, nb, ns)
                        l == Reshape(params.length, nb, ns)
                        conds == [b \in 1..nb |-> InitBranchConds(ra[b], r[b], l[b], ns)]
                    IN /\ coupling_conds_fwd' = Some([b \in 1..nb |-> conds[b][1]])
                       /\ coupling_conds_bwd' = Some([b \in 1..nb |-> conds[b][2]])
                       /\ IF ~IsSet(branch_edges)
                          THEN \* line 127: no branch_edges attribute yet
                               /\ err' = "AssertionError"
                               /\ UNCHANGED << summed_coupling_conds, branch_conds_fwd,
                                               branch_conds_bwd, initialized_conds >>
                          ELSE LET par_inds == Val(branch_edges).parent_branch_index
                                   child_inds == Val(branch_edges).child_branch_index
                                   jc == [k \in 1..Len(child_inds) |->
                                            JunctionConds(ra, r, l, ns, par_inds[k], child_inds[k])]
                                   fwd == [k \in 1..Len(child_inds) |-> jc[k][1]]
                                   bwd == [k \in 1..Len(child_inds) |-> jc[k][2]]
                               IN /\ summed_coupling_conds' =
                                        Some(UpdateSummedCouplingConds(
                                                 [b \in 1..nb |-> conds[b][3]],
                                                 child_inds, fwd, bwd, Val(comb_parents), ns))
                                  /\ branch_conds_fwd' = Some(ScatterSet(nb, child_inds, fwd))
                                  /\ branch_conds_bwd' = Some(ScatterSet(nb, child_inds, bwd))
                                  /\ initialized_conds' = TRUE
                                  /\ err' = "none"
    /\ UNCHANGED << input_vars, morph_vars, syns_vars, step_calls, step_out, glu_vars >>
    /\ Record("init_conds")

(***************************************************************************)
(* Network.init_syns                                                       *)
(***************************************************************************)
\* utils.syn_utils.prepare_syn(conns, nseg): cell indices and within-cell
\* compartment indices (branch * nseg + segment) of the two ends.
PrepareSyn(conns, ns) ==
    [ pre_cell_inds |-> [k \in 1..Len(conns) |-> conns[k].pre_cell_ind],
      pre_inds |-> [k \in 1..Len(conns) |->
                       conns[k].pre_branch_ind * ns + conns[k].pre_seg],
      post_cell_inds |-> [k \in 1..Len(conns) |-> conns[k].post_cell_ind],
      post_inds |-> [k \in 1..Len(conns) |->
                        conns[k].post_branch_ind * ns + conns[k].post_seg] ]

\* Faulty variant, for sensitivity analysis: the branch offset is not scaled by nseg.
BranchOffsetInds(cumsum, ns, cell_inds, inds) ==
    [k \in 1..Len(inds) |-> cumsum[cell_inds[k] + 1] + inds[k]]

\* self.cumsum_nbranches[cell_inds] * self.nseg + inds
GlobalCompInds(cumsum, ns, cell_inds, inds) ==
    [k \in 1..Len(inds) |-> cumsum[cell_inds[k] + 1] * ns + inds[k]]

\* The rows one connectivity group adds to self.syn_edges.
GroupRows(cumsum, ns, connectivity) ==
    LET ps == PrepareSyn(connectivity.conns, ns)
        pre == GlobalCompInds(cumsum, ns, ps.pre_cell_inds, ps.pre_inds)
        post == GlobalCompInds(cumsum, ns, ps.post_cell_inds, ps.post_inds)
    IN [k \in 1..Len(connectivity.conns) |->
          [ pre_comp_index |-> pre[k],
            post_comp_index |-> post[k],
            type |-> connectivity.synapse_type.name ]]

SynEdges(cumsum, ns, conn) ==
    Flatten([i \in 1..Len(conn) |-> GroupRows(cumsum, ns, conn[i])])

\* parent_branch_index = parents[parents != -1], child_branch_index = where(parents != -1)
BranchEdges(parents) ==
    LET children == SortedSeq({ b \in 0..(Len(parents) - 1) : parents[b + 1] # -1 })
    IN [ parent_branch_index |-> [k \in 1..Len(children) |-> parents[children[k] + 1]],
         child_branch_index |-> children ]

InitSyns ==
    /\ IF connectivities # << >> /\ ~IsSet(cumsum_nbranches)
       THEN \* line 161: no cumsum_nbranches attribute yet
            /\ err' = "AssertionError"
            /\ UNCHANGED syns_vars
       ELSE /\ syn_edges' = Some(IF connectivities = << >> THEN << >>
                                 ELSE SynEdges(Val(cumsum_nbranches), nseg, connectivities))
            /\ IF ~IsSet(comb_parents)
               THEN \* line 185: no comb_parents attribute yet
                    /\ err' = "AssertionError"
                    /\ UNCHANGED << branch_edges, initialized_syns >>
               ELSE /\ branch_edges' = Some(BranchEdges(Val(comb_parents)))
                    /\ initialized_syns' = TRUE
                    /\ err' = "none"
    /\ UNCHANGED << input_vars, morph_vars, conds_vars, step_calls, step_out, glu_vars >>
    /\ Record("init_syns")

(***************************************************************************)
(* Network._step_synapse, on the arguments the stepper hands it: the       *)
(* network's states and params and the pre/post columns of syn_edges.      *)
(* The method is static and reads no initialized_* flag: it can be called  *)
(* as soon as syn_edges exists to take the index columns from.  The loop   *)
(* stops at the first group whose step (lines 208-210) or scatter (lines   *)
(* 211-215) raises; a group whose step raised never reaches its scatter.   *)
(***************************************************************************)
\* The reversal potential of the glutamate synapse (e_syn = 0.0).
ESyn == 0

\* Length of the elementwise combination of arrays of lengths a and b under
\* array broadcasting; -1 when the shapes are incompatible.
BroadcastLen(a, b) == IF a = b THEN a ELSE IF a = 1 THEN b ELSE IF b = 1 THEN a ELSE -1

At(arr, k) == IF Len(arr) = 1 THEN arr[1] ELSE arr[k]

TheKey(tbl) == CHOOSE k \in DOMAIN tbl : TRUE

\* The exact-exponential gating update is kept symbolic: the new state of an
\* edge is determined by its old state and the presynaptic voltage it reads.
GatingUpdate(old, v_pre) == [ old_state |-> old, v_pre |-> v_pre ]

\* arr[i] of a jax array: an index past the end reads the last element.
Gather(arr, i) == IF i + 1 > Len(arr) THEN arr[Len(arr)] ELSE arr[i + 1]

\* A synapse mechanism's step(u, dt, voltages, params, pre_inds): new per-edge
\* state and the per-edge (voltage-coefficient, constant) current terms.
SynapseStep(type, u, voltages, prm, pre_inds) ==
    LET g == prm[TheKey(type.synapse_params)]
        ss == u[TheKey(type.synapse_states)]
        n_state == BroadcastLen(Len(ss), Len(pre_inds))
        n_term == BroadcastLen(Len(g), Len(ss))
    IN [ ok |-> n_state # -1 /\ n_term # -1,
         new_states |-> [k \in 1..n_state |->
                            GatingUpdate(At(ss, k), Gather(voltages, At(pre_inds, k)))],
         voltage_term |-> [k \in 1..n_term |-> At(g, k) * At(ss, k)],
         constant_term |-> [k \in 1..n_term |-> At(g, k) * At(ss, k) * ESyn] ]

RECURSIVE SumWhereUpTo(_, _, _, _)
SumWhereUpTo(keys, vals, key, n) ==
    IF n = 0 THEN 0
    ELSE SumWhereUpTo(keys, vals, key, n - 1) + (IF keys[n] = key THEN At(vals, n) ELSE 0)

\* The sum over the positions k of keys with keys[k] = key of At(vals, k).
SumWhere(keys, vals, key) == SumWhereUpTo(keys, vals, key, Len(keys))

\* utils.syn_utils.postsyn_voltage_updates: zeros_like(voltages).at[post].add(term)
ScatterAdd(n, post_inds, term) == [c \in 1..n |-> SumWhere(post_inds, term, c - 1)]

ScatterOk(post_inds, term) == Len(term) = Len(post_inds) \/ Len(term) = 1

\* The index array line 209 hands to group i's step, and the one line 213
\* hands to its scatter: the arguments as received, whatever the group.
StepPreInds(pre_syn_comp_inds, i) == pre_syn_comp_inds
StepPostInds(post_syn_comp_inds, i) == post_syn_comp_inds

Column(rows, field) == [k \in 1..Len(rows) |-> rows[k][field]]

StepSynapse ==
    /\ IsSet(syn_edges)
    /\ LET u == states
           voltages == states.voltages
           n == Len(voltages)
           syn_channels == [i \in 1..Len(connectivities) |-> connectivities[i].synapse_type]
           pre_syn_comp_inds == Column(Val(syn_edges), "pre_comp_index")
           post_syn_comp_inds == Column(Val(syn_edges), "post_comp_index")
           pre(i) == StepPreInds(pre_syn_comp_inds, i)
           post(i) == StepPostInds(post_syn_comp_inds, i)
           res == [i \in 1..Len(syn_channels) |->
                      SynapseStep(syn_channels[i], u, voltages, params, pre(i))]
           good(i) == res[i].ok /\ ScatterOk(post(i), res[i].voltage_term)
           failed == { i \in 1..Len(syn_channels) : ~good(i) }
           last == IF failed = {} THEN Len(syn_channels)
                   ELSE CHOOSE i \in failed : \A j \in failed : i <= j
           vt == [i \in 1..Len(syn_channels) |-> ScatterAdd(n, post(i), res[i].voltage_term)]
           ct == [i \in 1..Len(syn_channels) |-> ScatterAdd(n, post(i), res[i].constant_term)]
           scattered == IF failed # {} /\ ~res[last].ok THEN last - 1 ELSE last
       IN /\ step_calls' = Some([ step_received |-> [i \in 1..last |-> pre(i)],
                                  scatter_received |-> [i \in 1..scattered |-> post(i)] ])
          /\ IF failed # {}
             THEN /\ err' = "TypeError"
                  /\ step_out' = None
             ELSE /\ err' = "none"
                  /\ step_out' = Some(
                       [ new_syn_states |-> [i \in 1..Len(syn_channels) |-> res[i].new_states],
                         syn_voltage_terms |->
                             [c \in 1..n |-> SumSeq([i \in 1..Len(syn_channels) |-> vt[i][c]])],
                         syn_constant_terms |->
                             [c \in 1..n |-> SumSeq([i \in 1..Len(syn_channels) |-> ct[i][c]])] ])
    /\ UNCHANGED << input_vars, morph_vars, conds_vars, syns_vars, script, first_round,
                    glu_vars >>

Next == InitMorph \/ InitConds \/ InitSyns \/ StepSynapse

Spec == Init /\ [][Next]_vars

SpecOpen == InitOpen /\ [][Next]_vars

(***************************************************************************)
(* mechanisms.glutamate_synapse.glutamate, a function of its arguments:    *)
(* voltages is indexed [cell, compartment]; ss, the four index arrays and  *)
(* synaptic_conds hold one value per synapse.                              *)
(***************************************************************************)
GluCells == 2
GluComps == 2

GluTargets == (0..(GluCells - 1)) \X (0..(GluComps - 1))

GluVoltages == [c \in 1..GluCells |-> [i \in 1..GluComps |-> c + 2 * i - 70]]

GluInputsOf(n) ==
    { [ voltages |-> GluVoltages,
        ss |-> ss,
        pre_cell_inds |-> [e \in 1..n |-> 0],
        pre_inds |-> [e \in 1..n |-> (e - 1) % GluComps],
        post_cell_inds |-> [e \in 1..n |-> post[e][1]],
        post_inds |-> [e \in 1..n |-> post[e][2]],
        synaptic_conds |-> g ] :
      ss \in [1..n -> 1..2], post \in [1..n -> GluTargets], g \in [1..n -> 1..2] }

GluInputs == UNION { GluInputsOf(n) : n \in 1..MaxEdges }

\* The synapses whose (post_cell_inds, post_inds) entry is the target t.
Writers(in, t) ==
    { e \in 1..Len(in.ss) : in.post_cell_inds[e] = t[1] /\ in.post_inds[e] = t[2] }

\* zeros.at[post_cell_inds, post_inds].set(vals): a target nobody writes stays
\* zero; a target several synapses write keeps the value of one of them, and
\* which one is not defined (w names the writer that is kept).
IndexedSet(in, vals, w) ==
    [c \in 1..GluCells |-> [i \in 1..GluComps |->
        IF w[<< c - 1, i - 1 >>] = 0 THEN 0 ELSE vals[w[<< c - 1, i - 1 >>]]]]

KeptWriters(in) ==
    { w \in [GluTargets -> 0..Len(in.ss)] :
        \A t \in GluTargets :
            IF Writers(in, t) = {} THEN w[t] = 0 ELSE w[t] \in Writers(in, t) }

Glutamate ==
    /\ IsSet(glu_in)
    /\ LET in == Val(glu_in)
           n == Len(in.ss)
           new_s == [e \in 1..n |->
                        GatingUpdate(in.ss[e],
                                     in.voltages[in.pre_cell_inds[e] + 1][in.pre_inds[e] + 1])]
           vterm == [e \in 1..n |-> in.synaptic_conds[e] * in.ss[e]]
           cterm == [e \in 1..n |-> in.synaptic_conds[e] * in.ss[e] * ESyn]
       IN \E wv \in KeptWriters(in) : \E wc \in KeptWriters(in) :
             glu_out' = Some([ voltage_term |-> IndexedSet(in, vterm, wv),
                               constant_term |-> IndexedSet(in, cterm, wc),
                               new_s |-> new_s ])
    /\ UNCHANGED << input_vars, morph_vars, conds_vars, syns_vars, err, script, first_round,
                    step_calls, step_out, glu_in >>

InitGlu ==
    /\ Construct(<< MakeCell(1, << -1 >>) >>, << >>)
    /\ \E in \in GluInputs : glu_in = Some(in)
    /\ glu_out = None

NextGlu == Glutamate

SpecGlu == InitGlu /\ [][NextGlu]_vars

(***************************************************************************)
(* Properties.                                                             *)
(***************************************************************************)
\* Branch-count prefix sum of cell i (1-based position): b_1 + ... + b_(i-1).
Prefix(i) == SumUpTo([j \in 1..Len(cells) |-> cells[j].total_nbranches], i - 1)

TotalBranches == Prefix(Len(cells) + 1)

TotalCompartments == nseg * TotalBranches

\* C1: after init_morph on cells sharing nseg, comp_index is exactly
\* 0 .. nseg*sum(b_i)-1 without gaps or duplicates, compartment c belongs to
\* branch c // nseg and to the one cell whose compartment range holds c.
C1_NodeTableContiguous ==
    (initialized_morph /\ SharedNseg(cells)) =>
        LET nd == Val(nodes)
            N == TotalCompartments
        IN /\ Len(nd.comp_index) = N
           /\ Len(nd.branch_index) = N
           /\ Len(nd.cell_index) = N
           /\ { nd.comp_index[k] : k \in 1..N } = 0..(N - 1)
           /\ \A k, m \in 1..N : nd.comp_index[k] = nd.comp_index[m] => k = m
           /\ \A k \in 1..N :
                LET c == nd.comp_index[k]
                IN /\ nd.branch_index[k] = c \div nseg
                   /\ \E i \in 1..Len(cells) :
                        /\ nd.cell_index[k] = i - 1
                        /\ nseg * Prefix(i) <= c
                        /\ c < nseg * Prefix(i + 1)

C1_Witness ==
    /\ initialized_morph
    /\ Len(cells) = 2
    /\ SharedNseg(cells)
    /\ nseg = 2
    /\ cells[1].total_nbranches = 3
    /\ cells[2].total_nbranches = 2
    /\ Val(nodes).cell_index[7] = 1

\* C2: on a fresh network init_morph(); init_conds(); init_syns() in that
\* order completes every phase without error and leaves the three
\* initialized_* flags true.
C2_SetupInOrder ==
    /\ script \in 1..3 => err = "none"
    /\ script = 3 => initialized_morph /\ initialized_conds /\ initialized_syns

\* C3: a second round init_morph(); init_conds(); init_syns() leaves
\* comb_parents, the level grouping, the node table, the conductance arrays
\* and the two edge tables as they were after the first round.
C3_SecondRoundSame ==
    script = 6 => Tables = Val(first_round)

\* C4: after init_morph the global parent of a non-root branch b of cell i
\* is p_i[b] + off_i, which lies in cell i's branch range; the root of every
\* cell keeps the sentinel -1.
C4_ParentsRebased ==
    initialized_morph =>
        /\ Len(Val(comb_parents)) = TotalBranches
        /\ \A i \in 1..Len(cells) : \A b \in 0..(cells[i].total_nbranches - 1) :
             LET off == Prefix(i)
                 p == cells[i].comb_parents
                 g == Val(comb_parents)[off + b + 1]
             IN IF p[b + 1] = -1
                THEN g = -1
                ELSE /\ g = p[b + 1] + off
                     /\ g >= off
                     /\ g < off + cells[i].total_nbranches
                     /\ g # -1

C4_Witness ==
    /\ initialized_morph
    /\ Len(cells) = 2
    /\ cells[1].total_nbranches = 2
    /\ cells[2].comb_parents = << -1, 0, 1 >>
    /\ Val(comb_parents) = << -1, 0, -1, 2, 3 >>

\* C5: where several synapses target one postsynaptic compartment, the
\* voltage-coefficient term and the constant term there are the sums of the
\* contributions of all of them.
C5_ContributionsAccumulate ==
    IsSet(glu_out) =>
        LET in == Val(glu_in)
            out == Val(glu_out)
        IN \A t \in GluTargets :
             /\ out.voltage_term[t[1] + 1][t[2] + 1] =
                    SumSeq([e \in 1..Len(in.ss) |->
                               IF e \in Writers(in, t)
                               THEN in.synaptic_conds[e] * in.ss[e] ELSE 0])
             /\ out.constant_term[t[1] + 1][t[2] + 1] =
                    SumSeq([e \in 1..Len(in.ss) |->
                               IF e \in Writers(in, t)
                               THEN in.synaptic_conds[e] * in.ss[e] * ESyn ELSE 0])

\* C6: cells that do not share one nseg are rejected before any global
\* indexing: no node table, parent array or conductance array is built.
C6_MismatchedNsegRejected ==
    ~SharedNseg(cells) =>
        /\ nodes = None
        /\ comb_parents = None
        /\ coupling_conds_fwd = None
        /\ summed_coupling_conds = None

\* The connectivity groups whose synapse type declares the name key.
GroupsWithParam(key) ==
    { i \in 1..Len(connectivities) : key \in DOMAIN connectivities[i].synapse_type.synapse_params }

GroupsWithState(key) ==
    { i \in 1..Len(connectivities) : key \in DOMAIN connectivities[i].synapse_type.synapse_states }

ConnCount(G) ==
    SumSeq([i \in 1..Len(connectivities) |->
               IF i \in G THEN Len(connectivities[i].conns) ELSE 0])

\* C7: every synapse parameter and synapse state entry of params/states holds
\* one value per connection of the groups that carry its name.
C7_OneValuePerEdge ==
    /\ \A key \in DOMAIN params :
          GroupsWithParam(key) # {} => Len(params[key]) = ConnCount(GroupsWithParam(key))
    /\ \A key \in DOMAIN states :
          GroupsWithState(key) # {} => Len(states[key]) = ConnCount(GroupsWithState(key))

\* The junction pair as init_cell_conds gives it for the geometry of segment
\* ps of branch par and segment cs of branch child (segments counted from 0).
JunctionFrom(par, ps, child, cs) ==
    LET a == par * nseg + ps + 1
        b == child * nseg + cs + 1
    IN InitCellConds(params.axial_resistivity[a], params.axial_resistivity[b],
                     params.radius[a], params.radius[b],
                     params.length[a], params.length[b])

\* C8 as claimed: the junction pair of every (parent, child) row comes from
\* the last segment of the parent branch and the first segment of the child.
C8_LastOfParentFirstOfChild ==
    initialized_conds =>
        LET be == Val(branch_edges)
        IN \A k \in 1..Len(be.child_branch_index) :
             LET par == be.parent_branch_index[k]
                 child == be.child_branch_index[k]
             IN /\ Val(branch_conds_fwd)[child + 1] = JunctionFrom(par, nseg - 1, child, 0)[1]
                /\ Val(branch_conds_bwd)[child + 1] = JunctionFrom(par, nseg - 1, child, 0)[2]

\* C8 as amended: the junction pair of every (parent, child) row comes from
\* the first segment (index 0) of the parent branch and the last segment
\* (index nseg-1) of the child branch, and from no other segment.
C8_FirstOfParentLastOfChild ==
    initialized_conds =>
        LET be == Val(branch_edges)
        IN \A k \in 1..Len(be.child_branch_index) :
             LET par == be.parent_branch_index[k]
                 child == be.child_branch_index[k]
             IN /\ Val(branch_conds_fwd)[child + 1] = JunctionFrom(par, 0, child, nseg - 1)[1]
                /\ Val(branch_conds_bwd)[child + 1] = JunctionFrom(par, 0, child, nseg - 1)[2]

C8_Witness ==
    /\ initialized_conds
    /\ nseg = 2
    /\ Len(Val(branch_edges).child_branch_index) >= 2
    /\ \E k \in 1..Len(Val(branch_edges).child_branch_index) :
         LET par == Val(branch_edges).parent_branch_index[k]
             child == Val(branch_edges).child_branch_index[k]
         IN /\ JunctionFrom(par, 0, child, nseg - 1) # JunctionFrom(par, nseg - 1, child, 0)
            /\ Val(branch_conds_fwd)[child + 1] # ZeroR

\* Number of connections declared by the groups before group i.
ConnsBefore(i) ==
    SumUpTo([j \in 1..Len(connectivities) |-> Len(connectivities[j].conns)], i - 1)

\* C9: after init_syns the synapse-edge table has one row per declared
\* connection in group order, tagged with the group's synapse-type name; its
\* pre (post) index is nseg * prefix(cell) + the within-cell compartment index,
\* lies in [0, total_compartments) and belongs to the declared cell.
C9_SynEdgesTranslated ==
    initialized_syns =>
        LET rows == Val(syn_edges)
            cellcol == Val(nodes).cell_index
        IN /\ Len(rows) = ConnsBefore(Len(connectivities) + 1)
           /\ \A i \in 1..Len(connectivities) : \A k \in 1..Len(connectivities[i].conns) :
                LET c == connectivities[i].conns[k]
                    row == rows[ConnsBefore(i) + k]
                    pre == nseg * Prefix(c.pre_cell_ind + 1)
                             + (c.pre_branch_ind * nseg + c.pre_seg)
                    post == nseg * Prefix(c.post_cell_ind + 1)
                             + (c.post_branch_ind * nseg + c.post_seg)
                IN /\ row.type = connectivities[i].synapse_type.name
                   /\ row.pre_comp_index = pre
                   /\ row.post_comp_index = post
                   /\ pre >= 0 /\ pre < TotalCompartments
                   /\ post >= 0 /\ post < TotalCompartments
                   /\ cellcol[pre + 1] = c.pre_cell_ind
                   /\ cellcol[post + 1] = c.post_cell_ind

C9_Witness ==
    /\ initialized_syns
    /\ Len(cells) = 2
    /\ nseg = 2
    /\ Len(connectivities) = 2
    /\ connectivities[2].synapse_type.name = "TestSynapse"
    /\ Len(Val(syn_edges)) = 5
    /\ Val(syn_edges)[3].type = "TestSynapse"
    /\ connectivities[1].conns[2].pre_cell_ind = 1
    /\ Val(syn_edges)[2].pre_comp_index > nseg * cells[1].total_nbranches

\* C10: with two or more groups each group's step receives the presynaptic
\* indices of its own edges, its terms are scattered to the postsynaptic
\* indices of its own edges, and one new state is returned per group.
C10_OwnEdgesPerGroup ==
    (IsSet(step_calls) /\ Len(connectivities) >= 2) =>
        /\ \A i \in 1..Len(Val(step_calls).step_received) :
             LET own == SubSeq(Val(syn_edges), ConnsBefore(i) + 1, ConnsBefore(i + 1))
             IN Val(step_calls).step_received[i] = Column(own, "pre_comp_index")
        /\ \A i \in 1..Len(Val(step_calls).scatter_received) :
             LET own == SubSeq(Val(syn_edges), ConnsBefore(i) + 1, ConnsBefore(i + 1))
             IN Val(step_calls).scatter_received[i] = Column(own, "post_comp_index")
        /\ IsSet(step_out) => Len(Val(step_out).new_syn_states) = Len(connectivities)

=============================================================================
